---- MODULE Spec2Model ----
(***************************************************************************)
(* Model of harmony_multi_branch_verifier.py: the orchestrator main(), the *)
(* GitHub API client and the three artifact validators.                   *)
(*                                                                         *)
(* A Python str is modelled as a sequence of one-character strings, so     *)
(* that len(), "in", split(), strip(), lower() and the regular expressions *)
(* of CONFIG are computed character by character.                          *)
(***************************************************************************)
EXTENDS Integers, Sequences, FiniteSets, TLC

VARIABLES
    pc,            \* position of main(): INIT, ENV_LOADED, BRANCH_VERIFIED, DONE, ABORTED
    must_exist,    \* CONFIG["BRANCH_CONFIG"]["must_exist"]
    github_token,  \* value returned by _load_github_env (step 1)
    github_org,
    art_idx,       \* index of the next artifact of CONFIG["ARTIFACTS"] in the loop of step 3
    all_valid,     \* local all_valid of main()
    exit_code,     \* argument of sys.exit, "none" while running
    api_log,       \* every requests.get issued, with the response it got
    fetched,       \* per loop iteration: what _get_artifact_content and _validate_artifact returned
    stdout,        \* the diagnostic lines printed so far (tags)
    vin,           \* validator harness: the call under test
    vout           \* validator harness: what the call returned

vars == <<pc, must_exist, github_token, github_org, art_idx, all_valid,
          exit_code, api_log, fetched, stdout, vin, vout>>

mainVars == <<pc, must_exist, github_token, github_org, art_idx, all_valid,
              exit_code, api_log, fetched, stdout>>

(***************************************************************************)
(* Python str helpers                                                      *)
(***************************************************************************)
Rep(c, n) == [i \in 1..n |-> c]

Digits == {"0","1","2","3","4","5","6","7","8","9"}

HexLower == Digits \cup {"a","b","c","d","e","f"}

\* str.strip() with no argument removes leading and trailing whitespace
Whitespace == {" ", "\t", "\n", "\r", "\f"}

UpperCase == <<"A","B","C","D","E","F","G","H","I","J","K","L","M","N","O","P","Q","R","S","T","U","V","W","X","Y","Z">>

LowerCase == <<"a","b","c","d","e","f","g","h","i","j","k","l","m","n","o","p","q","r","s","t","u","v","w","x","y","z">>

SetMin(S) == CHOOSE m \in S : \A o \in S : m <= o

\* needle in hay
Contains(hay, needle) ==
    \/ Len(needle) = 0
    \/ \E i \in 1..(Len(hay) - Len(needle) + 1) :
          /\ hay[i] = needle[1]
          /\ \A j \in 2..Len(needle) : hay[i + j - 1] = needle[j]

\* s.lower()
LowerChar(c) ==
    IF \E k \in 1..Len(UpperCase) : UpperCase[k] = c
    THEN LowerCase[CHOOSE k \in 1..Len(UpperCase) : UpperCase[k] = c]
    ELSE c

Lower(s) == [i \in 1..Len(s) |-> LowerChar(s[i])]

\* s.strip()
Strip(s) ==
    LET keep == {i \in 1..Len(s) : s[i] \notin Whitespace}
    IN  IF keep = {} THEN <<>>
        ELSE SubSeq(s, SetMin(keep), CHOOSE m \in keep : \A o \in keep : o <= m)

\* s.split("\n"): the pieces between the newlines, empty pieces kept
RECURSIVE SplitFrom(_, _)
SplitFrom(s, start) ==
    LET nl == {i \in start..Len(s) : s[i] = "\n"}
    IN  IF nl = {} THEN <<SubSeq(s, start, Len(s))>>
        ELSE <<SubSeq(s, start, SetMin(nl) - 1)>> \o SplitFrom(s, SetMin(nl) + 1)

SplitNewline(s) == SplitFrom(s, 1)

\* "\n".join(lines)
RECURSIVE JoinNewline(_)
JoinNewline(lines) ==
    IF Len(lines) = 0 THEN <<>>
    ELSE IF Len(lines) = 1 THEN lines[1]
    ELSE lines[1] \o <<"\n">> \o JoinNewline(Tail(lines))

(***************************************************************************)
(* CONFIG                                                                  *)
(***************************************************************************)
BRANCH_COMMITS_JSON == "BRANCH_COMMITS.json"

CROSS_BRANCH_ANALYSIS_MD == "CROSS_BRANCH_ANALYSIS.md"

MERGE_TIMELINE_TXT == "MERGE_TIMELINE.txt"

\* CONFIG["ARTIFACTS"], in configuration order; has_encoding is
\* '"encoding" in art["schema"]'
ARTIFACTS == <<
    [name |-> BRANCH_COMMITS_JSON, has_encoding |-> FALSE, encoding |-> "absent"],
    [name |-> CROSS_BRANCH_ANALYSIS_MD, has_encoding |-> TRUE, encoding |-> "utf-8"],
    [name |-> MERGE_TIMELINE_TXT, has_encoding |-> FALSE, encoding |-> "absent"] >>

TARGET_BRANCH == "history-report-2025"

MIN_BRANCHES == 3

MIN_COMMITS_PER_BRANCH == 3

AUTHOR_MIN_LEN == 3

FILES_CHANGED_MIN == 1

MIN_LENGTH == 500

MIN_LINES == 10

COMMIT_FIELDS == << <<"s","h","a">>, <<"a","u","t","h","o","r">>, <<"m","e","s","s","a","g","e">>, <<"f","i","l","e","s","_","c","h","a","n","g","e","d">> >>

EXPECTED_BRANCHES == <<
    <<"p","r","/","4","5","-","g","o","o","g","l","e","f","a","n","2","5","6","-","m","a","i","n">>,
    <<"p","r","/","2","5","-","n","e","u","r","a","l","s","o","r","c","e","r","e","r","-","p","a","t","c","h","-","1">>,
    <<"p","r","/","4","1","-","a","m","i","r","h","o","s","s","e","i","n","g","h","a","n","i","p","o","u","r","-","f","i","x","-","r","a","c","e","-","c","o","n","d","i","t","i","o","n","s","-","a","n","d","-","o","f","f","l","i","n","e","-","a","p","i">> >>

REQUIRED_SECTIONS == <<
    <<"#","#"," ","T","o","p"," ","C","o","n","t","r","i","b","u","t","o","r","s">>,
    <<"#","#"," ","B","r","a","n","c","h"," ","C","o","m","m","i","t"," ","S","u","m","m","a","r","y">> >>

MUST_CONTAIN_KEYWORDS == <<
    <<"c","o","n","t","r","i","b","u","t","o","r","s">>,
    <<"c","o","m","m","i","t","s">>,
    <<"b","r","a","n","c","h">> >>

EXPECTED_CONTRIBUTORS == <<
    <<"s","c","o","t","t","-","o","a","i",":"," ","3","5"," ","c","o","m","m","i","t","s">>,
    <<"e","g","o","r","s","m","k","v",":"," ","4"," ","c","o","m","m","i","t","s">>,
    <<"a","x","i","o","n","6","6",":"," ","2"," ","c","o","m","m","i","t","s">> >>

EXPECTED_ENTRIES == <<
    <<"2","0","2","5","-","0","8","-","0","6"," ","|"," ","M","e","r","g","e"," ","p","u","l","l"," ","r","e","q","u","e","s","t"," ","#","2","9"," ","f","r","o","m"," ","a","x","i","o","n","6","6","/","i","m","p","r","o","v","e","-","r","e","a","d","m","e","-","a","n","d","-","c","h","e","c","k","s"," ","|"," ","3","e","f","b","f","7","4","2","5","3","3","a","3","7","5","f","c","1","4","8","d","7","5","5","1","3","5","9","7","e","1","3","9","3","2","9","5","7","8","b">>,
    <<"2","0","2","5","-","0","8","-","0","6"," ","|"," ","M","e","r","g","e"," ","p","u","l","l"," ","r","e","q","u","e","s","t"," ","#","3","0"," ","f","r","o","m"," ","Y","u","a","n","-","M","a","n","X","/","h","a","r","m","o","n","y","-","f","o","r","m","a","t"," ","|"," ","9","d","6","5","3","a","4","c","7","3","8","2","a","b","c","4","2","d","1","1","5","0","1","4","d","1","9","5","d","9","3","5","4","e","7","a","d","3","5","7">>,
    <<"2","0","2","5","-","0","8","-","0","5"," ","|"," ","M","e","r","g","e"," ","p","u","l","l"," ","r","e","q","u","e","s","t"," ","#","2","6"," ","f","r","o","m"," ","j","o","r","d","a","n","-","w","u","-","9","7","/","j","o","r","d","a","n","/","f","i","x","-","f","u","n","c","t","i","o","n","-","c","a","l","l","-","a","t","o","m","i","c","-","b","o","o","l"," ","|"," ","8","2","b","3","a","f","b","9","e","b","0","4","3","3","4","3","f","3","2","2","c","9","3","7","2","6","2","c","c","5","0","4","0","5","e","8","9","2","c","3">> >>

(***************************************************************************)
(* What a validator call produces: its return value (or the exception it   *)
(* lets escape) and the diagnostics it printed, in order.  One diagnostic  *)
(* stands for the print call(s) of one failed check; the line_pattern      *)
(* diagnostic covers the error line and the format hint of lines 362-363.  *)
(***************************************************************************)
Diag(check, at) == [check |-> check, at |-> at]

Ret(result, diags) == [result |-> result, diags |-> diags]

\* the indices of a set, ascending (the order of a list comprehension)
RECURSIVE Ascending(_)
Ascending(S) == IF S = {} THEN <<>> ELSE <<SetMin(S)>> \o Ascending(S \ {SetMin(S)})

\* a decoded artifact text: character data, or a JSON document described by
\* what json.loads makes of it
Chars(s) == [kind |-> "chars", s |-> s]

JsonText(parses, value) == [kind |-> "json", parses |-> parses, value |-> value]

\* A variant of _validate_cross_branch_md that evaluates all four checks and
\* prints one diagnostic per failed check before it returns.
_validate_cross_branch_md_all_checks(content) ==
    LET text == content.s
        missing_sections ==
            {k \in 1..Len(REQUIRED_SECTIONS) : ~Contains(text, REQUIRED_SECTIONS[k])}
        missing_keywords ==
            {k \in 1..Len(MUST_CONTAIN_KEYWORDS) :
                ~Contains(Lower(text), Lower(MUST_CONTAIN_KEYWORDS[k]))}
        missing_contributors ==
            {k \in 1..Len(EXPECTED_CONTRIBUTORS) : ~Contains(text, EXPECTED_CONTRIBUTORS[k])}
        diags ==
            (IF Len(text) < MIN_LENGTH THEN <<Diag("min_length", <<Len(text)>>)>> ELSE <<>>)
            \o (IF missing_sections # {}
                THEN <<Diag("required_sections", Ascending(missing_sections))>> ELSE <<>>)
            \o (IF missing_keywords # {}
                THEN <<Diag("must_contain_keywords", Ascending(missing_keywords))>> ELSE <<>>)
            \o (IF missing_contributors # {}
                THEN <<Diag("expected_contributors", Ascending(missing_contributors))>>
                ELSE <<>>)
    IN  Ret(IF diags = <<>> THEN "True" ELSE "False", diags)

(***************************************************************************)
(* _validate_cross_branch_md                                               *)
(***************************************************************************)
_validate_cross_branch_md(content) ==
    LET text == content.s
        missing_sections ==
            {k \in 1..Len(REQUIRED_SECTIONS) : ~Contains(text, REQUIRED_SECTIONS[k])}
        missing_keywords ==
            {k \in 1..Len(MUST_CONTAIN_KEYWORDS) :
                ~Contains(Lower(text), Lower(MUST_CONTAIN_KEYWORDS[k]))}
        missing_contributors ==
            {k \in 1..Len(EXPECTED_CONTRIBUTORS) : ~Contains(text, EXPECTED_CONTRIBUTORS[k])}
    IN  IF Len(text) < MIN_LENGTH
        THEN Ret("False", <<Diag("min_length", <<Len(text)>>)>>)
        ELSE IF missing_sections # {}
        THEN Ret("False", <<Diag("required_sections", Ascending(missing_sections))>>)
        ELSE IF missing_keywords # {}
        THEN Ret("False", <<Diag("must_contain_keywords", Ascending(missing_keywords))>>)
        ELSE IF missing_contributors # {}
        THEN Ret("False", <<Diag("expected_contributors", Ascending(missing_contributors))>>)
        ELSE Ret("True", <<>>)

(***************************************************************************)
(* _validate_merge_timeline                                                *)
(***************************************************************************)
\* re.compile(r"^\d{4}-\d{2}-\d{2} \| .+ \| [0-9a-f]{40}$").match(line), for a
\* line without "\n": ten date characters, " | ", at least one character,
\* " | ", forty hex characters.  The greedy .+ backtracks, so the match exists
\* exactly when the prefix and the suffix fit and leave a non-empty middle.
LinePatternMatch(line) ==
    LET n == Len(line)
    IN  /\ n >= 10 + 3 + 1 + 3 + 40
        /\ \A i \in {1, 2, 3, 4, 6, 7, 9, 10} : line[i] \in Digits
        /\ line[5] = "-" /\ line[8] = "-"
        /\ line[11] = " " /\ line[12] = "|" /\ line[13] = " "
        /\ \A i \in 14..(n - 43) : line[i] # "\n"
        /\ line[n - 42] = " " /\ line[n - 41] = "|" /\ line[n - 40] = " "
        /\ \A i \in (n - 39)..n : line[i] \in HexLower

\* [l.strip() for l in content.split("\n") if l.strip()]
RECURSIVE StripNonBlank(_)
StripNonBlank(raw) ==
    IF Len(raw) = 0 THEN <<>>
    ELSE (IF Strip(raw[1]) # <<>> THEN <<Strip(raw[1])>> ELSE <<>>) \o StripNonBlank(Tail(raw))

TimelineLines(text) == StripNonBlank(SplitNewline(text))

\* A variant of _validate_merge_timeline that checks the line format before
\* the number of lines.
_validate_merge_timeline_format_first(content) ==
    LET text == content.s
        lines == TimelineLines(text)
        bad == {i \in 1..Len(lines) : ~LinePatternMatch(lines[i])}
        missing_entries ==
            {k \in 1..Len(EXPECTED_ENTRIES) : ~Contains(text, EXPECTED_ENTRIES[k])}
    IN  IF bad # {}
        THEN Ret("False", <<Diag("line_pattern", <<SetMin(bad)>>)>>)
        ELSE IF Len(lines) < MIN_LINES
        THEN Ret("False", <<Diag("min_lines", <<Len(lines)>>)>>)
        ELSE IF missing_entries # {}
        THEN Ret("False", <<Diag("expected_entries", Ascending(missing_entries))>>)
        ELSE Ret("True", <<>>)

_validate_merge_timeline(content) ==
    LET text == content.s
        lines == TimelineLines(text)
        bad == {i \in 1..Len(lines) : ~LinePatternMatch(lines[i])}
        missing_entries ==
            {k \in 1..Len(EXPECTED_ENTRIES) : ~Contains(text, EXPECTED_ENTRIES[k])}
    IN  IF Len(lines) < MIN_LINES
        THEN Ret("False", <<Diag("min_lines", <<Len(lines)>>)>>)
        ELSE IF bad # {}
        THEN Ret("False", <<Diag("line_pattern", <<SetMin(bad)>>)>>)
        ELSE IF missing_entries # {}
        THEN Ret("False", <<Diag("expected_entries", Ascending(missing_entries))>>)
        ELSE Ret("True", <<>>)

(***************************************************************************)
(* Values json.loads produces, with the Python operations the validator    *)
(* applies to them.  A dict is its key/value pairs in document order.      *)
(***************************************************************************)
JStr(s) == [t |-> "str", s |-> s]

JInt(n) == [t |-> "int", n |-> n]

JFloat(n) == [t |-> "float", n |-> n]

JBool(b) == [t |-> "bool", n |-> IF b THEN 1 ELSE 0]

JNull == [t |-> "null"]

JArr(items) == [t |-> "arr", items |-> items]

JObj(kv) == [t |-> "obj", kv |-> kv]

KV(k, v) == [k |-> k, v |-> v]

\* the types len(x) and "s in x" accept; the others raise TypeError
Sized == {"obj", "arr", "str"}

\* len(x)
PyLen(x) ==
    IF x.t = "obj" THEN Len(x.kv)
    ELSE IF x.t = "arr" THEN Len(x.items)
    ELSE Len(x.s)

\* s in x, for a str s: a key of a dict, an element of a list, a substring of a str
PyIn(s, x) ==
    IF x.t = "obj" THEN \E i \in 1..Len(x.kv) : x.kv[i].k = s
    ELSE IF x.t = "arr"
    THEN \E i \in 1..Len(x.items) : x.items[i].t = "str" /\ x.items[i].s = s
    ELSE Contains(x.s, s)

\* d[key] of a dict that holds key
PyGet(d, key) == d.kv[CHOOSE i \in 1..Len(d.kv) : d.kv[i].k = key].v

\* what iterating x yields: the elements of a list, the keys of a dict, the
\* characters of a str
PyIter(x) ==
    IF x.t = "arr" THEN x.items
    ELSE IF x.t = "obj" THEN [i \in 1..Len(x.kv) |-> JStr(x.kv[i].k)]
    ELSE [i \in 1..Len(x.s) |-> JStr(<<x.s[i]>>)]

\* re.match(r"^[0-9a-f]{40}$", sha): $ also matches before a final newline
ShaRegexMatch(s) ==
    /\ Len(s) \in {40, 41}
    /\ \A i \in 1..40 : s[i] \in HexLower
    /\ Len(s) = 41 => s[41] = "\n"

(***************************************************************************)
(* _validate_branch_commits_json                                           *)
(***************************************************************************)
\* the loop state: sha_set, valid, what was printed, and the exception that
\* ended the loop ("none" while it runs)
LoopInit == [sha_set |-> {}, valid |-> TRUE, diags |-> <<>>, exc |-> "none"]

\* print the diagnostic; valid = False; continue
Reject(st, d) == [st EXCEPT !.valid = FALSE, !.diags = Append(@, d)]

Raise(st, e) == [st EXCEPT !.exc = e]

\* the body of "for idx, commit in enumerate(commits, 1)"
CommitStep(st, b, idx, commit) ==
    IF commit.t \notin Sized
    THEN Raise(st, "TypeError")                     \* f not in commit
    ELSE IF \E f \in 1..Len(COMMIT_FIELDS) : ~PyIn(COMMIT_FIELDS[f], commit)
    THEN Reject(st, Diag("missing_fields", <<b, idx>>))
    ELSE IF commit.t # "obj"
    THEN Raise(st, "TypeError")                     \* commit["sha"] on a list or a str
    ELSE
    LET sha == PyGet(commit, COMMIT_FIELDS[1])
        author == PyGet(commit, COMMIT_FIELDS[2])
        files_changed == PyGet(commit, COMMIT_FIELDS[4])
    IN  IF sha.t # "str"
        THEN Raise(st, "TypeError")                 \* re.match on a non-string
        ELSE IF ~ShaRegexMatch(sha.s)
        THEN Reject(st, Diag("sha_regex", <<b, idx>>))
        ELSE IF sha.s \in st.sha_set
        THEN Reject(st, Diag("sha_duplicate", <<b, idx>>))
        ELSE
        LET added == [st EXCEPT !.sha_set = @ \cup {sha.s}]
        IN  IF author.t \notin Sized
            THEN Raise(added, "TypeError")          \* len(commit["author"])
            ELSE IF PyLen(author) < AUTHOR_MIN_LEN
            THEN Reject(added, Diag("author_min_len", <<b, idx>>))
            ELSE IF files_changed.t \notin {"int", "bool"}
                    \/ files_changed.n < FILES_CHANGED_MIN
            THEN Reject(added, Diag("files_changed", <<b, idx>>))
            ELSE added

RECURSIVE CommitsLoop(_, _, _, _)
CommitsLoop(st, b, commits, idx) ==
    IF idx > Len(commits) \/ st.exc # "none" THEN st
    ELSE CommitsLoop(CommitStep(st, b, idx, commits[idx]), b, commits, idx + 1)

\* the body of "for branch, commits in data.items()"; b is the position of the
\* branch in the document
BranchStep(st, b, commits) ==
    IF commits.t \notin Sized
    THEN Raise(st, "TypeError")                     \* len(commits)
    ELSE IF PyLen(commits) < MIN_COMMITS_PER_BRANCH
    THEN Reject(st, Diag("min_commits_per_branch", <<b>>))
    ELSE CommitsLoop(st, b, PyIter(commits), 1)

RECURSIVE BranchesLoop(_, _, _)
BranchesLoop(st, kv, b) ==
    IF b > Len(kv) \/ st.exc # "none" THEN st
    ELSE BranchesLoop(BranchStep(st, b, kv[b].v), kv, b + 1)

\* json.loads(content): the value, or JSONDecodeError.  A character text of
\* this model is never a JSON document.
JsonParses(content) == content.kind = "json" /\ content.parses

_validate_branch_commits_json(content) ==
    IF ~JsonParses(content)
    THEN Ret("False", <<Diag("json_syntax", <<>>)>>)
    ELSE
    LET data == content.value
        missing_branches ==
            {k \in 1..Len(EXPECTED_BRANCHES) : ~PyIn(EXPECTED_BRANCHES[k], data)}
    IN  IF data.t \notin Sized
        THEN Ret("TypeError", <<>>)                 \* len(data)
        ELSE IF PyLen(data) < MIN_BRANCHES
        THEN Ret("False", <<Diag("min_branches", <<PyLen(data)>>)>>)
        ELSE IF missing_branches # {}
        THEN Ret("False", <<Diag("expected_branches", Ascending(missing_branches))>>)
        ELSE IF data.t # "obj"
        THEN Ret("AttributeError", <<>>)            \* data.items()
        ELSE
        LET st == BranchesLoop(LoopInit, data.kv, 1)
        IN  Ret(IF st.exc # "none" THEN st.exc
                ELSE IF st.valid THEN "True" ELSE "False",
                st.diags)

(***************************************************************************)
(* _validate_artifact                                                      *)
(***************************************************************************)
_validate_artifact(content, artifact_name) ==
    IF artifact_name = BRANCH_COMMITS_JSON THEN _validate_branch_commits_json(content)
    ELSE IF artifact_name = CROSS_BRANCH_ANALYSIS_MD THEN _validate_cross_branch_md(content)
    ELSE IF artifact_name = MERGE_TIMELINE_TXT THEN _validate_merge_timeline(content)
    ELSE Ret("True", <<>>)

(***************************************************************************)
(* Artifact texts given to the validators                                  *)
(***************************************************************************)
MaxFill == 8

MaxEdits == 2

\* ---- MERGE_TIMELINE.txt -------------------------------------------------
EntrySep == <<" ", "|", " ">>

FillerDate == <<"2","0","2","5","-","0","7","-","0","1">>

FillerLine == FillerDate \o EntrySep \o <<"m","e","r","g","e">> \o EntrySep \o Rep("a", 40)

\* lines put among the regular ones: nothing; a 39-digit sha; a one-digit
\* month; an upper-case sha; an empty description; a matching line wrapped in
\* whitespace; blank lines; a blank line followed by a 39-digit sha
OddLines == <<
    <<>>,
    <<FillerDate \o EntrySep \o <<"m","e","r","g","e">> \o EntrySep \o Rep("a", 39)>>,
    <<<<"2","0","2","5","-","7","-","0","1">> \o EntrySep \o <<"m","e","r","g","e">> \o EntrySep \o Rep("a", 40)>>,
    <<FillerDate \o EntrySep \o <<"m","e","r","g","e">> \o EntrySep \o Rep("A", 40)>>,
    <<FillerDate \o EntrySep \o EntrySep \o Rep("a", 40)>>,
    <<<<" ", "\t">> \o FillerLine \o <<" ", "\r">>>>,
    <<<<" ", "\t">>>>,
    <<<<>>>>,
    <<<<" ">>, FillerDate \o EntrySep \o <<"m","e","r","g","e">> \o EntrySep \o Rep("a", 39)>> >>

\* where the odd lines go: before the regular lines, after the second, at the end
InsertAfter == {0, 2, MaxFill + 3}

RegularLines(present, k) ==
    [i \in 1..Len(Ascending(present)) |-> EXPECTED_ENTRIES[Ascending(present)[i]]]
        \o [i \in 1..k |-> FillerLine]

TimelineText(present, k, odd, after) ==
    LET regular == RegularLines(present, k)
        cut == IF after > Len(regular) THEN Len(regular) ELSE after
    IN  Chars(JoinNewline(SubSeq(regular, 1, cut) \o OddLines[odd]
                            \o SubSeq(regular, cut + 1, Len(regular))))

\* ---- CROSS_BRANCH_ANALYSIS.md -------------------------------------------
\* further lines a document may carry: a contributor that is not expected,
\* and the keyword "commits" in another case
ExtraMdLines == <<
    <<"u","n","l","i","s","t","e","d","-","d","e","v",":"," ","9"," ","c","o","m","m","i","t","s">>,
    <<"T","o","t","a","l"," ","C","O","M","M","I","T","S"," ","c","o","u","n","t","e","d">> >>

PadLengths == {0, MIN_LENGTH - 100, MIN_LENGTH}

MdText(sections, contributors, extras, pad) ==
    Chars(JoinNewline(
        [i \in 1..Len(Ascending(sections)) |-> REQUIRED_SECTIONS[Ascending(sections)[i]]]
        \o [i \in 1..Len(Ascending(contributors)) |->
                EXPECTED_CONTRIBUTORS[Ascending(contributors)[i]]]
        \o [i \in 1..Len(Ascending(extras)) |-> ExtraMdLines[Ascending(extras)[i]]]
        \o <<Rep("x", pad)>>))

\* ---- BRANCH_COMMITS.json ------------------------------------------------
ShaDigits == <<"1", "2", "3", "4", "5", "6", "7", "8", "9", "a", "b", "c">>

\* the n-th well-formed sha: forty times the n-th digit
ShaOf(n) == Rep(ShaDigits[n], 40)

GoodCommit(n) ==
    JObj(<<KV(COMMIT_FIELDS[1], JStr(ShaOf(n))),
           KV(COMMIT_FIELDS[2], JStr(<<"b","o","b">>)),
           KV(COMMIT_FIELDS[3], JStr(<<"f","i","x">>)),
           KV(COMMIT_FIELDS[4], JInt(n))>>)

\* MIN_COMMITS_PER_BRANCH commits, the shas numbered from..from+2
GoodCommits(from) == JArr(<<GoodCommit(from), GoodCommit(from + 1), GoodCommit(from + 2)>>)

\* the three expected branches with three commits each, all shas distinct
BaseLedger ==
    JObj(<<KV(EXPECTED_BRANCHES[1], GoodCommits(1)),
           KV(EXPECTED_BRANCHES[2], GoodCommits(4)),
           KV(EXPECTED_BRANCHES[3], GoodCommits(7))>>)

OtherBranch == <<"f","e","a","t","u","r","e","/","e","x","t","r","a">>

\* dict with key set to v (appended when absent)
SetKey(d, key, v) ==
    IF \E i \in 1..Len(d.kv) : d.kv[i].k = key
    THEN JObj([i \in 1..Len(d.kv) |-> IF d.kv[i].k = key THEN KV(key, v) ELSE d.kv[i]])
    ELSE JObj(Append(d.kv, KV(key, v)))

\* dict without key
DelKey(d, key) ==
    LET keep == {i \in 1..Len(d.kv) : d.kv[i].k # key}
    IN  JObj([i \in 1..Cardinality(keep) |-> d.kv[Ascending(keep)[i]]])

\* whether the ledger still has a commit object at (branch key, idx)
HasCommitAt(ledger, key, idx) ==
    /\ ledger.t = "obj"
    /\ \E i \in 1..Len(ledger.kv) : ledger.kv[i].k = key
    /\ PyGet(ledger, key).t = "arr"
    /\ idx <= Len(PyGet(ledger, key).items)
    /\ PyGet(ledger, key).items[idx].t = "obj"

WithCommit(ledger, key, idx, commit) ==
    SetKey(ledger, key, JArr([PyGet(ledger, key).items EXCEPT ![idx] = commit]))

\* The edits applied to BaseLedger.  "field": one field of one commit gets
\* another value; "nofield": the field is removed; "commit": the commit is
\* replaced; "branch": the value of a branch is replaced or a branch is added;
\* "nobranch": the branch is removed; "top": the whole document is replaced.
Edit(op, b, idx, f, v) == [op |-> op, b |-> b, idx |-> idx, f |-> f, v |-> v]

Edits == <<
    Edit("field", 1, 2, 1, JStr(ShaOf(1))),          \* same sha twice in one branch
    Edit("field", 2, 1, 1, JStr(ShaOf(1))),          \* same sha in two branches
    Edit("field", 3, 3, 1, JStr(ShaOf(7))),          \* same sha twice in the last branch
    Edit("field", 1, 1, 1, JStr(Rep("g", 40))),      \* not hex
    Edit("field", 2, 1, 1, JStr(ShaOf(4) \o <<"\n">>)),
    Edit("field", 2, 2, 1, JInt(7)),                 \* sha is a number
    Edit("field", 1, 3, 2, JStr(<<"a", "b">>)),      \* author too short
    Edit("field", 3, 1, 2, JNull),                   \* author is null
    Edit("field", 3, 2, 2, JArr(<<JInt(1), JInt(2), JInt(3)>>)),
    Edit("field", 1, 1, 4, JInt(0)),
    Edit("field", 2, 3, 4, JBool(TRUE)),
    Edit("field", 2, 3, 4, JFloat(2)),
    Edit("nofield", 3, 1, 3, JNull),                 \* no message
    Edit("commit", 2, 2, 0, JInt(1)),                \* a commit that is a number
    Edit("commit", 3, 3, 0, JStr(<<"s","h","a"," ","a","u","t","h","o","r"," ","m","e","s","s","a","g","e"," ","f","i","l","e","s","_","c","h","a","n","g","e","d">>)),
    Edit("commit", 1, 2, 0, JStr(<<"x">>)),
    Edit("branch", 3, 0, 0, JInt(5)),                \* a branch that is no list
    Edit("branch", 2, 0, 0, JArr(<<GoodCommit(4), GoodCommit(5)>>)),
    Edit("branch", 1, 0, 0, JStr(<<"s","h","a"," ","a","u","t","h","o","r"," ","m","e","s","s","a","g","e"," ","f","i","l","e","s","_","c","h","a","n","g","e","d">>)),
    Edit("branch", 4, 0, 0, GoodCommits(10)),        \* an unrelated extra branch
    Edit("branch", 4, 0, 0, GoodCommits(1)),         \* an extra branch repeating shas
    Edit("nobranch", 2, 0, 0, JNull),
    Edit("top", 0, 0, 0, JArr(<<JStr(EXPECTED_BRANCHES[1]), JStr(EXPECTED_BRANCHES[2]),
                                 JStr(EXPECTED_BRANCHES[3])>>)),
    Edit("top", 0, 0, 0, JArr(<<>>)),
    Edit("top", 0, 0, 0, JNull) >>

BranchKey(b) == IF b <= Len(EXPECTED_BRANCHES) THEN EXPECTED_BRANCHES[b] ELSE OtherBranch

ApplyEdit(ledger, e) ==
    IF e.op = "top" THEN e.v
    ELSE IF ledger.t # "obj" THEN ledger
    ELSE IF e.op = "branch" THEN SetKey(ledger, BranchKey(e.b), e.v)
    ELSE IF e.op = "nobranch" THEN DelKey(ledger, BranchKey(e.b))
    ELSE IF ~HasCommitAt(ledger, BranchKey(e.b), e.idx) THEN ledger
    ELSE IF e.op = "commit" THEN WithCommit(ledger, BranchKey(e.b), e.idx, e.v)
    ELSE IF e.op = "field"
    THEN WithCommit(ledger, BranchKey(e.b), e.idx,
            SetKey(PyGet(ledger, BranchKey(e.b)).items[e.idx], COMMIT_FIELDS[e.f], e.v))
    ELSE WithCommit(ledger, BranchKey(e.b), e.idx,
            DelKey(PyGet(ledger, BranchKey(e.b)).items[e.idx], COMMIT_FIELDS[e.f]))

\* BaseLedger after the edits numbered es, in that order
RECURSIVE Edited(_, _)
Edited(ledger, es) ==
    IF Len(es) = 0 THEN ledger ELSE Edited(ApplyEdit(ledger, Edits[es[1]]), Tail(es))

\* the sequences of at most MaxEdits edit numbers
EditLists == UNION {[1..n -> 1..Len(Edits)] : n \in 0..MaxEdits}

LedgerText(es) == JsonText(TRUE, Edited(BaseLedger, es))

SyntaxErrorText == JsonText(FALSE, JNull)

(***************************************************************************)
(* The GitHub API as the client sees it                                    *)
(***************************************************************************)
\* the "content" string of a contents response: base64 text, described by
\* what base64.b64decode and bytes.decode make of it.  newlines: the text is
\* wrapped in lines, as the API sends it.
B64Str(newlines, padding_ok, utf8_ok, text) ==
    [t |-> "b64str", newlines |-> newlines, padding_ok |-> padding_ok,
     utf8_ok |-> utf8_ok, text |-> text]

NoneText == [kind |-> "None"]

\* what requests.get does: it raises, or it returns a response with a
\* status code and a body that is JSON (json) or is not (json_ok = FALSE)
Raised == [raised |-> TRUE, status_code |-> 0, json_ok |-> FALSE, json |-> JNull]

Response(status_code, json_ok, json) ==
    [raised |-> FALSE, status_code |-> status_code, json_ok |-> json_ok, json |-> json]

ContentKey == <<"c", "o", "n", "t", "e", "n", "t">>

MessageKey == <<"m", "e", "s", "s", "a", "g", "e">>

FileData(content) == JObj(<<KV(ContentKey, content)>>)

\* not x
Falsy(x) ==
    \/ x.t = "null"
    \/ x.t = "obj" /\ Len(x.kv) = 0
    \/ x.t = "arr" /\ Len(x.items) = 0
    \/ x.t = "str" /\ Len(x.s) = 0
    \/ x.t \in {"int", "bool", "float"} /\ x.n = 0

\* not content, for what _get_artifact_content returns
NoContent(content) ==
    \/ content.kind = "None"
    \/ content.kind = "chars" /\ Len(content.s) = 0

(***************************************************************************)
(* _call_github_api: (success, data) and what it printed                   *)
(***************************************************************************)
ApiResult(success, data, printed) == [success |-> success, data |-> data, printed |-> printed]

_call_github_api(response) ==
    IF response.raised
    THEN ApiResult(FALSE, JNull, <<"api_exception">>)
    ELSE IF response.status_code = 200
    THEN IF response.json_ok
         THEN ApiResult(TRUE, response.json, <<>>)
         ELSE ApiResult(FALSE, JNull, <<"api_exception">>)  \* response.json() raises
    ELSE IF response.status_code = 404
    THEN ApiResult(FALSE, JNull, <<"api_404">>)
    ELSE ApiResult(FALSE, JNull, <<"api_failed">>)

\* A variant of _check_branch_existence that returns True when the mandatory
\* branch is missing.
_check_branch_existence_never_false(response, mandatory) ==
    LET api == _call_github_api(response)
    IN  IF ~api.success /\ mandatory
        THEN [ok |-> TRUE, printed |-> api.printed \o <<"branch_missing_mandatory">>]
        ELSE IF ~api.success
        THEN [ok |-> TRUE, printed |-> api.printed \o <<"branch_missing_warning">>]
        ELSE [ok |-> TRUE, printed |-> api.printed \o <<"branch_exists">>]

(***************************************************************************)
(* _check_branch_existence                                                 *)
(***************************************************************************)
_check_branch_existence(response, mandatory) ==
    LET api == _call_github_api(response)
    IN  IF ~api.success /\ mandatory
        THEN [ok |-> FALSE, printed |-> api.printed \o <<"branch_missing_mandatory">>]
        ELSE IF ~api.success
        THEN [ok |-> TRUE, printed |-> api.printed \o <<"branch_missing_warning">>]
        ELSE [ok |-> TRUE, printed |-> api.printed \o <<"branch_exists">>]

(***************************************************************************)
(* _get_artifact_content                                                   *)
(***************************************************************************)
\* next(art["schema"]["encoding"] for art in CONFIG["ARTIFACTS"]
\*      if art["name"] == file_name and "encoding" in art["schema"]) or "utf-8"
\* next() of a generator that yields nothing raises StopIteration
EncodingFor(file_name) ==
    LET declared == {i \in 1..Len(ARTIFACTS) :
                        ARTIFACTS[i].name = file_name /\ ARTIFACTS[i].has_encoding}
    IN  IF declared = {} THEN "StopIteration"
        ELSE IF ARTIFACTS[SetMin(declared)].encoding = "" THEN "utf-8"
        ELSE ARTIFACTS[SetMin(declared)].encoding

\* file_data.get("content", "")
ContentField(file_data) ==
    IF \E i \in 1..Len(file_data.kv) : file_data.kv[i].k = ContentKey
    THEN PyGet(file_data, ContentKey)
    ELSE B64Str(FALSE, TRUE, TRUE, Chars(<<>>))

\* s.replace("\n", "")
StripNewlines(b64) == [b64 EXCEPT !.newlines = FALSE]

Fetched(content, printed) == [content |-> content, printed |-> printed]

_get_artifact_content(file_name, response) ==
    LET api == _call_github_api(response)
        file_data == api.data
    IN  IF ~api.success \/ Falsy(file_data)
        THEN Fetched(NoneText, api.printed \o <<"file_not_found">>)
        ELSE IF file_data.t # "obj"                 \* list.get: AttributeError
        THEN Fetched(NoneText, <<"decode_failed">>)
        ELSE IF ContentField(file_data).t # "b64str"    \* None.replace: AttributeError
        THEN Fetched(NoneText, <<"decode_failed">>)
        ELSE
        LET base64_content == StripNewlines(ContentField(file_data))
            encoding == EncodingFor(file_name)
        IN  IF encoding = "StopIteration"
            THEN Fetched(NoneText, <<"decode_failed">>)
            ELSE IF ~base64_content.padding_ok      \* b64decode: binascii.Error
            THEN Fetched(NoneText, <<"decode_failed">>)
            ELSE IF ~base64_content.utf8_ok         \* decode: UnicodeDecodeError
            THEN Fetched(NoneText, <<"decode_failed">>)
            ELSE Fetched(base64_content.text, <<>>)

(***************************************************************************)
(* What the API may answer                                                 *)
(***************************************************************************)
BranchResponses == <<
    Response(200, TRUE, JObj(<<KV(MessageKey, JStr(<<"o", "k">>))>>)),
    Response(200, FALSE, JNull),
    Response(404, TRUE, JObj(<<KV(MessageKey, JStr(<<"n", "o">>))>>)),
    Response(500, FALSE, JNull),
    Raised >>

\* the texts served for the i-th artifact: one that satisfies its validator,
\* one that does not, and the empty text
ValidText(i) ==
    IF i = 1 THEN LedgerText(<<>>)
    ELSE IF i = 2
    THEN MdText(1..Len(REQUIRED_SECTIONS), 1..Len(EXPECTED_CONTRIBUTORS), {}, MIN_LENGTH)
    ELSE TimelineText(1..Len(EXPECTED_ENTRIES), MIN_LINES - Len(EXPECTED_ENTRIES), 1, 0)

InvalidText(i) ==
    IF i = 1 THEN LedgerText(<<1>>)
    ELSE IF i = 2 THEN MdText({1}, {2, 3}, {}, MIN_LENGTH)
    ELSE TimelineText(1..Len(EXPECTED_ENTRIES), 0, 2, 0)

ContentResponses(i) == <<
    Raised,
    Response(404, TRUE, JObj(<<KV(MessageKey, JStr(<<"n", "o">>))>>)),
    Response(500, FALSE, JNull),
    Response(200, FALSE, JNull),
    Response(200, TRUE, JNull),
    Response(200, TRUE, JArr(<<FileData(JNull)>>)),
    Response(200, TRUE, JObj(<<>>)),
    Response(200, TRUE, JObj(<<KV(MessageKey, JStr(<<"o", "k">>))>>)),
    Response(200, TRUE, FileData(JNull)),
    Response(200, TRUE, FileData(B64Str(TRUE, FALSE, TRUE, ValidText(i)))),
    Response(200, TRUE, FileData(B64Str(TRUE, TRUE, FALSE, ValidText(i)))),
    Response(200, TRUE, FileData(B64Str(TRUE, TRUE, TRUE, ValidText(i)))),
    Response(200, TRUE, FileData(B64Str(FALSE, TRUE, TRUE, ValidText(i)))),
    Response(200, TRUE, FileData(B64Str(TRUE, TRUE, TRUE, InvalidText(i)))),
    Response(200, TRUE, FileData(B64Str(TRUE, TRUE, TRUE, Chars(<<>>)))) >>

\* what os.environ.get returns: None, an empty string, a value
NoneEnv == "<None>"

EnvValues == {NoneEnv, "", "value"}

\* not x, for an environment value
Unset(x) == x \in {NoneEnv, ""}

(***************************************************************************)
(* Validator calls on their own: _validate_artifact applied to one text     *)
(***************************************************************************)
NoRet == Ret("pending", <<>>)

Call(artifact_name, content) == [artifact_name |-> artifact_name, content |-> content]

MainIdle ==
    /\ pc = "INIT" /\ must_exist = TRUE
    /\ github_token = "unread" /\ github_org = "unread"
    /\ art_idx = 1 /\ all_valid = TRUE /\ exit_code = "none"
    /\ api_log = <<>> /\ fetched = <<>> /\ stdout = <<>>

InitValidators ==
    /\ MainIdle
    /\ vout = NoRet
    /\ \/ \E present \in SUBSET (1..Len(EXPECTED_ENTRIES)), k \in 0..MaxFill,
             odd \in 1..Len(OddLines), after \in InsertAfter :
               vin = Call(MERGE_TIMELINE_TXT, TimelineText(present, k, odd, after))
       \/ \E sections \in SUBSET (1..Len(REQUIRED_SECTIONS)),
             contributors \in SUBSET (1..Len(EXPECTED_CONTRIBUTORS)),
             extras \in SUBSET (1..Len(ExtraMdLines)), pad \in PadLengths :
               vin = Call(CROSS_BRANCH_ANALYSIS_MD, MdText(sections, contributors, extras, pad))
       \/ \E es \in EditLists : vin = Call(BRANCH_COMMITS_JSON, LedgerText(es))
       \/ vin = Call(BRANCH_COMMITS_JSON, SyntaxErrorText)
       \/ vin = Call("README.md", Chars(REQUIRED_SECTIONS[1]))

ValidateArtifact ==
    /\ vout = NoRet
    /\ vout' = _validate_artifact(vin.content, vin.artifact_name)
    /\ UNCHANGED <<mainVars, vin>>

NextValidators == ValidateArtifact

SpecValidators == InitValidators /\ [][NextValidators]_vars

(***************************************************************************)
(* main()                                                                  *)
(***************************************************************************)
NoCall == Call("", NoneText)

Request(endpoint, path, response) ==
    [endpoint |-> endpoint, path |-> path, response |-> response]

\* must_exist is True in the shipped CONFIG (line 38); both values of the
\* setting are explored because _check_branch_existence branches on it.
Init ==
    /\ pc = "INIT"
    /\ must_exist \in BOOLEAN
    /\ github_token = "unread" /\ github_org = "unread"
    /\ art_idx = 1 /\ all_valid = TRUE /\ exit_code = "none"
    /\ api_log = <<>> /\ fetched = <<>> /\ stdout = <<>>
    /\ vin = NoCall /\ vout = NoRet

\* step 1: _load_github_env, then exit(1) when a value is missing
LoadEnv ==
    /\ pc = "INIT"
    /\ \E token \in EnvValues, org \in EnvValues :
        /\ github_token' = token
        /\ github_org' = org
        /\ IF Unset(token) \/ Unset(org)
           THEN /\ pc' = "ABORTED"
                /\ exit_code' = 1
                /\ stdout' = stdout
                        \o (IF Unset(token) THEN <<"token_missing">> ELSE <<>>)
                        \o (IF Unset(org) THEN <<"org_missing">> ELSE <<>>)
                        \o <<"env_failed">>
           ELSE /\ pc' = "ENV_LOADED"
                /\ exit_code' = exit_code
                /\ stdout' = Append(stdout, "env_ok")
    /\ UNCHANGED <<must_exist, art_idx, all_valid, api_log, fetched, vin, vout>>

\* step 2: _check_branch_existence, then exit(1) when it returns False
CheckBranch ==
    /\ pc = "ENV_LOADED"
    /\ \E r \in 1..Len(BranchResponses) :
        LET response == BranchResponses[r]
            checked == _check_branch_existence(response, must_exist)
        IN  /\ api_log' = Append(api_log, Request("branches", TARGET_BRANCH, response))
            /\ stdout' = stdout \o checked.printed
            /\ IF checked.ok
               THEN pc' = "BRANCH_VERIFIED" /\ exit_code' = exit_code
               ELSE pc' = "ABORTED" /\ exit_code' = 1
    /\ art_idx' = 1
    /\ all_valid' = TRUE
    /\ UNCHANGED <<must_exist, github_token, github_org, fetched, vin, vout>>

\* A variant of the loop body of step 3 that exits with status 1 at the first
\* artifact that is missing or invalid.
VerifyArtifactStopsAtFailure ==
    /\ pc = "BRANCH_VERIFIED"
    /\ art_idx <= Len(ARTIFACTS)
    /\ \E r \in 1..Len(ContentResponses(art_idx)) :
        LET name == ARTIFACTS[art_idx].name
            response == ContentResponses(art_idx)[r]
            got == _get_artifact_content(name, response)
            ret == IF NoContent(got.content) THEN Ret("skipped", <<>>)
                   ELSE _validate_artifact(got.content, name)
        IN  /\ api_log' = Append(api_log, Request("contents", name, response))
            /\ fetched' = Append(fetched,
                    [name |-> name, content |-> got.content, result |-> ret.result])
            /\ stdout' = stdout \o got.printed
                    \o [i \in 1..Len(ret.diags) |-> ret.diags[i].check]
                    \o (IF ret.result = "True" THEN <<"artifact_ok">> ELSE <<>>)
            /\ all_valid' = (all_valid /\ ret.result = "True")
            /\ IF ret.result = "True"
               THEN pc' = pc /\ exit_code' = exit_code
               ELSE pc' = "ABORTED" /\ exit_code' = 1
    /\ art_idx' = art_idx + 1
    /\ UNCHANGED <<must_exist, github_token, github_org, vin, vout>>

\* step 3, one iteration of "for artifact in CONFIG["ARTIFACTS"]".  A
\* validator that raises ends the process with a traceback, status 1.
VerifyArtifact ==
    /\ pc = "BRANCH_VERIFIED"
    /\ art_idx <= Len(ARTIFACTS)
    /\ \E r \in 1..Len(ContentResponses(art_idx)) :
        LET name == ARTIFACTS[art_idx].name
            response == ContentResponses(art_idx)[r]
            got == _get_artifact_content(name, response)
            ret == IF NoContent(got.content) THEN Ret("skipped", <<>>)
                   ELSE _validate_artifact(got.content, name)
        IN  /\ api_log' = Append(api_log, Request("contents", name, response))
            /\ fetched' = Append(fetched,
                    [name |-> name, content |-> got.content, result |-> ret.result])
            /\ stdout' = stdout \o got.printed
                    \o [i \in 1..Len(ret.diags) |-> ret.diags[i].check]
                    \o (IF ret.result = "True" THEN <<"artifact_ok">> ELSE <<>>)
            /\ all_valid' = (all_valid /\ ret.result = "True")
            /\ IF ret.result \in {"True", "False", "skipped"}
               THEN pc' = pc /\ exit_code' = exit_code
               ELSE pc' = "CRASHED" /\ exit_code' = 1
    /\ art_idx' = art_idx + 1
    /\ UNCHANGED <<must_exist, github_token, github_org, vin, vout>>

\* A variant of the end of main() that does not look at all_valid.
FinishIgnoresAllValid ==
    /\ pc = "BRANCH_VERIFIED"
    /\ art_idx > Len(ARTIFACTS)
    /\ pc' = "DONE"
    /\ exit_code' = 0
    /\ stdout' = stdout \o <<"source_validation_skipped", "policy_ok", "summary">>
    /\ UNCHANGED <<must_exist, github_token, github_org, art_idx, all_valid,
                   api_log, fetched, vin, vout>>

\* after the loop: exit(1) when an artifact failed; otherwise steps 4 and 5,
\* which only print, the summary and exit(0)
Finish ==
    /\ pc = "BRANCH_VERIFIED"
    /\ art_idx > Len(ARTIFACTS)
    /\ IF ~all_valid
       THEN /\ pc' = "ABORTED"
            /\ exit_code' = 1
            /\ stdout' = Append(stdout, "artifacts_failed")
       ELSE /\ pc' = "DONE"
            /\ exit_code' = 0
            /\ stdout' = stdout \o <<"source_validation_skipped", "policy_ok", "summary">>
    /\ UNCHANGED <<must_exist, github_token, github_org, art_idx, all_valid,
                   api_log, fetched, vin, vout>>

Next == LoadEnv \/ CheckBranch \/ VerifyArtifact \/ Finish

Spec == Init /\ [][Next]_vars

(***************************************************************************)
(* Properties of a run of main()                                           *)
(***************************************************************************)
Terminated == pc \in {"DONE", "ABORTED", "CRASHED"}

CredentialsLoaded == ~Unset(github_token) /\ ~Unset(github_org)

BranchRequested == Len(api_log) >= 1 /\ api_log[1].endpoint = "branches"

\* the requests of the artifact phase, in the order they were issued
ContentRequests == SubSeq(api_log, 2, Len(api_log))

\* the branch lookup answered 200 with a JSON body, or the branch is optional
BranchPassed ==
    /\ BranchRequested
    /\ \/ ~must_exist
       \/ /\ ~api_log[1].response.raised
          /\ api_log[1].response.status_code = 200
          /\ api_log[1].response.json_ok

\* a 200 response whose "content" is well-padded base64 of UTF-8 text
Decodable(response) ==
    /\ ~response.raised
    /\ response.status_code = 200
    /\ response.json_ok
    /\ response.json.t = "obj"
    /\ \E i \in 1..Len(response.json.kv) : response.json.kv[i].k = ContentKey
    /\ PyGet(response.json, ContentKey).t = "b64str"
    /\ PyGet(response.json, ContentKey).padding_ok
    /\ PyGet(response.json, ContentKey).utf8_ok

DecodedText(response) == PyGet(response.json, ContentKey).text

\* every artifact was fetched (non-null content) and its validator returned true
AllArtifactsValid ==
    /\ Len(fetched) = Len(ARTIFACTS)
    /\ \A i \in 1..Len(ARTIFACTS) :
        /\ fetched[i].name = ARTIFACTS[i].name
        /\ ~NoContent(fetched[i].content)
        /\ fetched[i].result = "True"

FullSuccess == CredentialsLoaded /\ BranchPassed /\ AllArtifactsValid

\* C1: with both credentials present, the branch lookup answered 200 and each
\* of the three artifact fetches answered 200 with base64 content that
\* satisfies the artifact's validator, main() ends in DONE with exit status 0.
C1_EndToEndSuccess ==
    ( /\ Terminated
      /\ CredentialsLoaded
      /\ BranchRequested
      /\ ~api_log[1].response.raised
      /\ api_log[1].response.status_code = 200
      /\ api_log[1].response.json_ok
      /\ \A i \in 1..Len(ContentRequests) :
            /\ Decodable(ContentRequests[i].response)
            /\ ~NoContent(DecodedText(ContentRequests[i].response))
            /\ _validate_artifact(DecodedText(ContentRequests[i].response),
                                  ContentRequests[i].path).result = "True" )
    => (pc = "DONE" /\ exit_code = 0)

\* C2: a run ends with exit status 0 only if the credentials were loaded, the
\* branch check passed and all three artifacts were fetched and validated;
\* every other run ends with exit status 1.
C2_ExitStatus ==
    /\ ~Terminated => exit_code = "none"
    /\ Terminated =>
        /\ exit_code \in {0, 1}
        /\ exit_code = 0 => FullSuccess
        /\ ~FullSuccess => exit_code = 1

\* a run that got through the artifact phase with one artifact validated and
\* another one not, and ended with status 1
C2_Witness ==
    /\ pc = "ABORTED" /\ exit_code = 1
    /\ CredentialsLoaded /\ BranchPassed
    /\ Len(fetched) = Len(ARTIFACTS)
    /\ \E i \in 1..Len(fetched) : fetched[i].result = "True"
    /\ \E i \in 1..Len(fetched) : fetched[i].result # "True"

\* C3: with the token or the organization missing the run aborts with status 1
\* and no API request; with the mandatory branch reported missing (404) it
\* aborts with status 1 and no artifact-content request.
C3_FatalConditionsHalt ==
    /\ (pc # "INIT" /\ ~CredentialsLoaded) =>
            (pc = "ABORTED" /\ exit_code = 1 /\ api_log = <<>>)
    /\ (BranchRequested /\ must_exist /\ ~api_log[1].response.raised
            /\ api_log[1].response.status_code = 404) =>
            (pc = "ABORTED" /\ exit_code = 1 /\ Len(api_log) = 1 /\ fetched = <<>>)

\* the mandatory branch was looked up, the API answered 404, the run is over
C3_Witness ==
    /\ must_exist /\ CredentialsLoaded
    /\ BranchRequested
    /\ api_log[1].response.status_code = 404
    /\ pc = "ABORTED"

\* C4: the branch lookup answering 200 makes the check pass; 404 on a
\* mandatory branch makes it fail and the run abort with a non-zero status;
\* 404 on an optional branch makes it pass with a warning, and the run goes on
\* to the artifact phase.
C4_BranchExistence ==
    (BranchRequested /\ ~api_log[1].response.raised) =>
        /\ api_log[1].response.status_code = 200 =>
                (pc # "ABORTED" \/ Len(api_log) > 1)
        /\ (api_log[1].response.status_code = 404 /\ must_exist) =>
                (pc = "ABORTED" /\ exit_code = 1)
        /\ (api_log[1].response.status_code = 404 /\ ~must_exist /\ Len(api_log) = 1) =>
                (pc = "BRANCH_VERIFIED" /\ stdout[Len(stdout)] = "branch_missing_warning")

\* C5: once the branch check has passed, all three artifacts are fetched in
\* configuration order whatever happened to the earlier ones; the run aborts
\* (status 1) only after the third, and only if one of them failed.
C5_ArtifactPhaseNeverAbortsEarly ==
    /\ \A i \in 1..Len(ContentRequests) :
            /\ i <= Len(ARTIFACTS)
            /\ ContentRequests[i].endpoint = "contents"
            /\ ContentRequests[i].path = ARTIFACTS[i].name
    /\ (BranchPassed /\ Len(ContentRequests) < Len(ARTIFACTS)) =>
            (pc = "BRANCH_VERIFIED" /\ exit_code = "none")
    /\ (BranchPassed /\ Terminated) =>
            /\ Len(ContentRequests) = Len(ARTIFACTS)
            /\ Len(fetched) = Len(ARTIFACTS)
            /\ (\E i \in 1..Len(fetched) : fetched[i].result # "True")
                    => (pc = "ABORTED" /\ exit_code = 1)
            /\ (\A i \in 1..Len(fetched) : fetched[i].result = "True")
                    => (pc = "DONE" /\ stdout[Len(stdout) - 1] = "policy_ok")

\* the first artifact could not be fetched, the second was still fetched and
\* validated, and the run ended only after the third
C5_Witness ==
    /\ pc = "ABORTED"
    /\ Len(fetched) = Len(ARTIFACTS)
    /\ fetched[1].result = "skipped"
    /\ fetched[2].result = "True"

\* C6: for every configured artifact, a 200 response carrying valid base64 of
\* valid UTF-8 text makes _get_artifact_content return the decoded string
\* (utf-8 being the default encoding); null is returned only when the fetch
\* or the decoding fails.
C6_DecodesWithDefaultUtf8 ==
    \A i \in 1..Len(fetched) :
        /\ Decodable(ContentRequests[i].response) =>
                fetched[i].content = DecodedText(ContentRequests[i].response)
        /\ fetched[i].content = NoneText => ~Decodable(ContentRequests[i].response)

(***************************************************************************)
(* Properties of the validators                                            *)
(***************************************************************************)
\* the call of the validator of artifact name has returned
Called(name) == vout # NoRet /\ vin.artifact_name = name

\* the positions <<branch, index>> of the commit objects of a ledger that
\* carry a sha
ShaPositions(data) ==
    UNION {
        {<<b, i>> : i \in
            {j \in 1..(IF data.kv[b].v.t = "arr" THEN Len(data.kv[b].v.items) ELSE 0) :
                /\ data.kv[b].v.items[j].t = "obj"
                /\ PyIn(COMMIT_FIELDS[1], data.kv[b].v.items[j])}}
        : b \in 1..Len(data.kv)}

ShaAt(data, p) == PyGet(data.kv[p[1]].v.items[p[2]], COMMIT_FIELDS[1])

\* the same sha value occurs in two commit objects
HasDuplicateSha(data) ==
    /\ data.t = "obj"
    /\ \E p \in ShaPositions(data), q \in ShaPositions(data) :
        /\ p # q
        /\ ShaAt(data, p).t = ShaAt(data, q).t
        /\ ShaAt(data, p) = ShaAt(data, q)

\* C7: a parsed ledger in which the same sha value occurs in two commit
\* objects, in one branch or in two, makes _validate_branch_commits_json
\* return false, whatever else the ledger contains.
C7_DuplicateShaFails ==
    (Called(BRANCH_COMMITS_JSON) /\ JsonParses(vin.content)
        /\ HasDuplicateSha(vin.content.value))
    => vout.result = "False"

\* C8: for any syntactically valid JSON text _validate_branch_commits_json
\* returns true or false; no exception leaves it.
C8_ErrorContainment ==
    (Called(BRANCH_COMMITS_JSON) /\ JsonParses(vin.content))
    => vout.result \in {"True", "False"}

\* the checks of the narrative document, in the order of the validator, and
\* which of them a text fails
MdChecks ==
    <<"min_length", "required_sections", "must_contain_keywords", "expected_contributors">>

MdFailed(text) ==
    {k \in 1..Len(MdChecks) :
        \/ k = 1 /\ Len(text) < MIN_LENGTH
        \/ k = 2 /\ \E j \in 1..Len(REQUIRED_SECTIONS) : ~Contains(text, REQUIRED_SECTIONS[j])
        \/ k = 3 /\ \E j \in 1..Len(MUST_CONTAIN_KEYWORDS) :
                        ~Contains(Lower(text), Lower(MUST_CONTAIN_KEYWORDS[j]))
        \/ k = 4 /\ \E j \in 1..Len(EXPECTED_CONTRIBUTORS) :
                        ~Contains(text, EXPECTED_CONTRIBUTORS[j])}

\* the checks of the timeline, in the order of the validator
TimelineChecks == <<"min_lines", "line_pattern", "expected_entries">>

TimelineFailed(text) ==
    LET lines == TimelineLines(text)
    IN  {k \in 1..Len(TimelineChecks) :
            \/ k = 1 /\ Len(lines) < MIN_LINES
            \/ k = 2 /\ \E i \in 1..Len(lines) : ~LinePatternMatch(lines[i])
            \/ k = 3 /\ \E j \in 1..Len(EXPECTED_ENTRIES) :
                            ~Contains(text, EXPECTED_ENTRIES[j])}

\* the checks a ledger (a JSON object) fails before the loop over its branches
LedgerChecks == <<"min_branches", "expected_branches">>

LedgerFailed(data) ==
    {k \in 1..Len(LedgerChecks) :
        \/ k = 1 /\ Len(data.kv) < MIN_BRANCHES
        \/ k = 2 /\ \E j \in 1..Len(EXPECTED_BRANCHES) : ~PyIn(EXPECTED_BRANCHES[j], data)}

\* the branches of a ledger with too few commits
ShortBranches(data) ==
    {b \in 1..Len(data.kv) :
        data.kv[b].v.t \in Sized /\ PyLen(data.kv[b].v) < MIN_COMMITS_PER_BRANCH}

Printed(check) == \E i \in 1..Len(vout.diags) : vout.diags[i].check = check

\* C9 as stated: a validator prints one diagnostic per failed check, so
\* content that fails several checks of one validator gets all of them
\* reported (a document without a required section and without an expected
\* contributor; a ledger with too few branches and without an expected branch).
C9_OneDiagnosticPerFailedCheck ==
    /\ Called(CROSS_BRANCH_ANALYSIS_MD) =>
            \A k \in MdFailed(vin.content.s) : Printed(MdChecks[k])
    /\ (Called(BRANCH_COMMITS_JSON) /\ JsonParses(vin.content)
            /\ vin.content.value.t = "obj") =>
            \A k \in LedgerFailed(vin.content.value) : Printed(LedgerChecks[k])

\* C9 as amended: a validator stops at the first failed check and prints that
\* diagnostic alone; only the loop of the JSON validator goes on after a
\* failure, and when it returns it has reported every branch with too few
\* commits.
C9_FirstFailedCheckOnly ==
    /\ Called(CROSS_BRANCH_ANALYSIS_MD) =>
            LET failed == MdFailed(vin.content.s)
            IN  IF failed = {}
                THEN vout = Ret("True", <<>>)
                ELSE /\ vout.result = "False"
                     /\ Len(vout.diags) = 1
                     /\ vout.diags[1].check = MdChecks[SetMin(failed)]
    /\ Called(MERGE_TIMELINE_TXT) =>
            LET failed == TimelineFailed(vin.content.s)
            IN  IF failed = {}
                THEN vout = Ret("True", <<>>)
                ELSE /\ vout.result = "False"
                     /\ Len(vout.diags) = 1
                     /\ vout.diags[1].check = TimelineChecks[SetMin(failed)]
    /\ (Called(BRANCH_COMMITS_JSON) /\ ~JsonParses(vin.content)) =>
            vout = Ret("False", <<Diag("json_syntax", <<>>)>>)
    /\ (Called(BRANCH_COMMITS_JSON) /\ JsonParses(vin.content)
            /\ vin.content.value.t = "obj") =>
            IF LedgerFailed(vin.content.value) # {}
            THEN /\ vout.result = "False"
                 /\ Len(vout.diags) = 1
                 /\ vout.diags[1].check = LedgerChecks[SetMin(LedgerFailed(vin.content.value))]
            ELSE vout.result \in {"True", "False"} =>
                 /\ \A b \in ShortBranches(vin.content.value) :
                        \E i \in 1..Len(vout.diags) :
                            vout.diags[i] = Diag("min_commits_per_branch", <<b>>)
                 /\ vout.result = "True" <=> vout.diags = <<>>

\* a document long enough that lacks a required section and an expected
\* contributor has been validated: one diagnostic
C9_Witness ==
    /\ Called(CROSS_BRANCH_ANALYSIS_MD)
    /\ {2, 4} \subseteq MdFailed(vin.content.s)
    /\ 1 \notin MdFailed(vin.content.s)
    /\ Len(vout.diags) = 1

\* the 1-based positions, among the non-blank trimmed lines, of the lines
\* that do not match the pattern
BadLines(text) ==
    LET lines == TimelineLines(text)
    IN  {i \in 1..Len(lines) : ~LinePatternMatch(lines[i])}

AllEntriesPresent(text) ==
    \A j \in 1..Len(EXPECTED_ENTRIES) : Contains(text, EXPECTED_ENTRIES[j])

\* C10 as stated: a log with a line that does not match the pattern fails with
\* the diagnostic naming the index of the first such line; a log whose lines
\* all match but number fewer than 10 fails on the count; a log of at least 10
\* matching lines with every expected entry passes.
C10_TimelineAsStated ==
    Called(MERGE_TIMELINE_TXT) =>
        LET text == vin.content.s
            count == Len(TimelineLines(text))
            bad == BadLines(text)
        IN  /\ bad # {} =>
                vout = Ret("False", <<Diag("line_pattern", <<SetMin(bad)>>)>>)
            /\ (bad = {} /\ count < MIN_LINES) =>
                vout = Ret("False", <<Diag("min_lines", <<count>>)>>)
            /\ (bad = {} /\ count >= MIN_LINES /\ AllEntriesPresent(text)) =>
                vout = Ret("True", <<>>)

\* C10 as amended: a log with fewer than 10 non-blank lines fails on the count,
\* whether its lines match or not; a log with at least 10 non-blank lines one
\* of which, trimmed, does not match fails with the diagnostic naming the
\* 1-based index of the first such line among the non-blank lines; a log of at
\* least 10 matching lines with every expected entry passes.
C10_TimelineCountFirst ==
    Called(MERGE_TIMELINE_TXT) =>
        LET text == vin.content.s
            count == Len(TimelineLines(text))
            bad == BadLines(text)
        IN  /\ count < MIN_LINES =>
                vout = Ret("False", <<Diag("min_lines", <<count>>)>>)
            /\ (count >= MIN_LINES /\ bad # {}) =>
                vout = Ret("False", <<Diag("line_pattern", <<SetMin(bad)>>)>>)
            /\ (count >= MIN_LINES /\ bad = {} /\ AllEntriesPresent(text)) =>
                vout = Ret("True", <<>>)

\* a log of at least 10 non-blank lines whose first non-matching line is not
\* the first line has been validated and failed at that line
C10_Witness ==
    /\ Called(MERGE_TIMELINE_TXT)
    /\ LET bad == BadLines(vin.content.s)
       IN  /\ Len(TimelineLines(vin.content.s)) >= MIN_LINES
           /\ bad # {}
           /\ SetMin(bad) > 1
           /\ vout.diags = <<Diag("line_pattern", <<SetMin(bad)>>)>>
====
